---------------------------- MODULE Spec2Model ----------------------------
(***************************************************************************)
(* Line-based record readers of the Survival Project: load_items,          *)
(* load_monsters and load_recipes.  A file is a sequence of lines, a line  *)
(* is a string, and every std::string operation the readers use is         *)
(* computed character by character on it.                                  *)
(***************************************************************************)
EXTENDS Integers, Sequences, FiniteSets, TLC

(***************************************************************************)
(* std::string primitives.  Positions are 0-based as in C++.               *)
(***************************************************************************)

\* std::string::npos.  It is SIZE_MAX, so npos + 1 wraps to 0; with -1 the
\* sum npos + 1 is 0 as well, which is all the readers ever do with it.
npos == -1

MinOf(S) == CHOOSE m \in S : \A n \in S : m <= n

MaxOf(S) == CHOOSE m \in S : \A n \in S : n <= m

\* s[i], 0-based
CharAt(s, i) == SubSeq(s, i + 1, i + 1)

\* s.find(pat, from)
Find(s, pat, from) ==
    LET hits == { i \in from .. (Len(s) - Len(pat)) :
                      SubSeq(s, i + 1, i + Len(pat)) = pat }
    IN  IF hits = {} THEN npos ELSE MinOf(hits)

\* s.find_last_of(c)
FindLastOf(s, c) ==
    LET hits == { i \in 0 .. (Len(s) - 1) : CharAt(s, i) = c }
    IN  IF hits = {} THEN npos ELSE MaxOf(hits)

\* s.find_first_not_of(set)
FindFirstNotOf(s, set) ==
    LET hits == { i \in 0 .. (Len(s) - 1) : CharAt(s, i) \notin set }
    IN  IF hits = {} THEN npos ELSE MinOf(hits)

\* s.find_last_not_of(set)
FindLastNotOf(s, set) ==
    LET hits == { i \in 0 .. (Len(s) - 1) : CharAt(s, i) \notin set }
    IN  IF hits = {} THEN npos ELSE MaxOf(hits)

\* s.substr(pos): the readers only call it with 0 <= pos <= size
SubstrFrom(s, pos) == SubSeq(s, pos + 1, Len(s))

\* s.substr(pos, n), n clipped to the end of s
Substr(s, pos, n) ==
    SubSeq(s, pos + 1, IF pos + n > Len(s) THEN Len(s) ELSE pos + n)

\* value.erase(std::remove(value.begin(), value.end(), c), value.end())
RECURSIVE RemoveAll(_, _)
RemoveAll(s, c) ==
    IF Len(s) = 0 THEN ""
    ELSE IF CharAt(s, 0) = c THEN RemoveAll(SubstrFrom(s, 1), c)
    ELSE CharAt(s, 0) \o RemoveAll(SubstrFrom(s, 1), c)


(***************************************************************************)
(* std::stoi(str): strtol skips leading white space, takes an optional     *)
(* sign and the longest run of decimal digits.  No digit: it throws        *)
(* std::invalid_argument.  A value outside int: std::out_of_range.         *)
(***************************************************************************)
INT_MAX == 2147483647

INT_MIN == (-INT_MAX) - 1

\* isspace() in the "C" locale, as far as a line read by getline can hold it
IsSpace == {" ", "\t", "\n", "\r", "\f"}

Digits == {"0", "1", "2", "3", "4", "5", "6", "7", "8", "9"}

DigitVal(c) == Find("0123456789", c, 0)

\* The digits of s from position i on, accumulated as a non-positive number
\* (so that INT_MIN is reachable); over is set once the value leaves
\* [limit, 0] and stays set.
RECURSIVE StoiDigits(_, _, _, _)
StoiDigits(s, i, acc, limit) ==
    IF i >= Len(s) \/ CharAt(s, i) \notin Digits
    THEN [acc |-> acc, over |-> FALSE, n |-> 0]
    ELSE LET d == DigitVal(CharAt(s, i))
         IN  IF acc < (limit + d + 9) \div 10
             THEN [acc |-> 0, over |-> TRUE, n |-> 1]
             ELSE LET r == StoiDigits(s, i + 1, acc * 10 - d, limit)
                  IN  [r EXCEPT !.n = r.n + 1]

Stoi(s) ==
    LET b     == FindFirstNotOf(s, IsSpace)
        neg   == b /= npos /\ CharAt(s, b) = "-"
        sgn   == b /= npos /\ CharAt(s, b) \in {"-", "+"}
        first == IF sgn THEN b + 1 ELSE b
        r     == StoiDigits(s, first, 0, IF neg THEN INT_MIN ELSE -INT_MAX)
    IN  IF b = npos \/ r.n = 0
        THEN [ok |-> FALSE, err |-> "invalid_argument", val |-> 0]
        ELSE IF r.over
        THEN [ok |-> FALSE, err |-> "out_of_range", val |-> 0]
        ELSE [ok |-> TRUE, err |-> "none", val |-> IF neg THEN r.acc ELSE -r.acc]

(***************************************************************************)
(* The records.                                                            *)
(***************************************************************************)
Item(id, name) == [id |-> id, name |-> name]

\* Item()
EmptyItem == Item("", "")

\* Monster(): the default member initialisers give 0
EmptyMonster ==
    [id |-> "", name |-> "", hp |-> 0, melee_dice |-> 0,
     melee_dice_sides |-> 0, armor |-> 0]

\* Recipe()
EmptyRecipe == [id |-> "", result |-> "", components |-> <<>>]

\* Player::hp as a Player is constructed
StartHp == 100

\* std::pair<std::string, int>
Pair(first, second) == [first |-> first, second |-> second]

(***************************************************************************)
(* The quoted value after a key, as load_items and load_recipes take it:   *)
(* colon = s.find(':', key_pos); q1 = s.find('"', colon + 1);              *)
(* q2 = s.find('"', q1 + 1).  found is the test                            *)
(* q1 != npos && q2 != npos.                                               *)
(***************************************************************************)
QuotedAfter(s, key_pos) ==
    LET colon == Find(s, ":", key_pos)
        q1    == Find(s, "\"", colon + 1)
        q2    == Find(s, "\"", q1 + 1)
    IN  [found |-> q1 /= npos /\ q2 /= npos,
         value |-> IF q1 /= npos /\ q2 /= npos
                   THEN Substr(s, q1 + 1, q2 - q1 - 1) ELSE ""]

(***************************************************************************)
(* load_items: the body of its while (std::getline(f, line)) loop.         *)
(* st is [items, current].                                                 *)
(***************************************************************************)
ItemsId(current, line) ==
    LET id_pos == Find(line, "\"id\"", 0)
        v      == QuotedAfter(line, id_pos)
    IN  IF id_pos /= npos /\ v.found
        THEN [current EXCEPT !.id = v.value]
        ELSE current

\* ItemsName committing only a record that has an id
ItemsName_NeedsId(st, line) ==
    LET name_pos == Find(line, "\"str\"", 0)
        v        == QuotedAfter(line, name_pos)
    IN  IF name_pos /= npos /\ v.found
        THEN IF st.current.id /= ""
             THEN [items   |-> Append(st.items,
                                      [st.current EXCEPT !.name = v.value]),
                   current |-> EmptyItem]
             ELSE [st EXCEPT !.current.name = v.value]
        ELSE st

ItemsName(st, line) ==
    LET name_pos == Find(line, "\"str\"", 0)
        v        == QuotedAfter(line, name_pos)
    IN  IF name_pos /= npos /\ v.found
        THEN [items   |-> Append(st.items, [st.current EXCEPT !.name = v.value]),
              current |-> EmptyItem]
        ELSE st

ItemsStep(st, line) ==
    ItemsName([st EXCEPT !.current = ItemsId(st.current, line)], line)

(***************************************************************************)
(* load_monsters: its three lambdas and the body of its getline loop.      *)
(* st is [monsters, current, in_object].                                   *)
(***************************************************************************)
TrimSet == {" ", "\t", "\n", "\r"}

\* the lambda trim
trim(s) ==
    LET start == FindFirstNotOf(s, TrimSet)
        end   == FindLastNotOf(s, TrimSet)
    IN  IF start = npos \/ end = npos THEN ""
        ELSE Substr(s, start, end - start + 1)

\* the lambda extract_string_value
extract_string_value(s) ==
    LET colon == Find(s, ":", 0)
        value == RemoveAll(SubstrFrom(s, colon + 1), ",")
        q1    == Find(value, "\"", 0)
        q2    == FindLastOf(value, "\"")
    IN  IF colon = npos THEN ""
        ELSE IF q1 /= npos /\ q2 /= npos /\ q2 > q1
        THEN Substr(value, q1 + 1, q2 - q1 - 1)
        ELSE trim(value)

\* value.erase(0, value.find_first_not_of(" \t")): erase(0, npos) empties it
EraseLeadingBlanks(value) ==
    LET k == FindFirstNotOf(value, {" ", "\t"})
    IN  IF k = npos THEN "" ELSE SubstrFrom(value, k)

\* extract_int_value reporting a failed parse as -1 instead of 0
extract_int_value_Sentinel(s) ==
    LET colon == Find(s, ":", 0)
        value == EraseLeadingBlanks(RemoveAll(SubstrFrom(s, colon + 1), ","))
        r     == Stoi(value)
    IN  IF colon = npos THEN -1
        ELSE IF r.ok THEN r.val ELSE -1

\* the lambda extract_int_value; catch (...) turns either exception into 0
extract_int_value(s) ==
    LET colon == Find(s, ":", 0)
        value == EraseLeadingBlanks(RemoveAll(SubstrFrom(s, colon + 1), ","))
        r     == Stoi(value)
    IN  IF colon = npos THEN 0
        ELSE IF r.ok THEN r.val ELSE 0

Has(t, pat) == Find(t, pat, 0) /= npos

\* the if / else if chain over the field keys
MonsterField(current, t) ==
    IF Has(t, "\"id\"")
    THEN [current EXCEPT !.id = extract_string_value(t)]
    ELSE IF Has(t, "\"name\"") /\ Has(t, "\"str\"")
    THEN [current EXCEPT !.name = extract_string_value(t)]
    ELSE IF Has(t, "\"hp\"")
    THEN [current EXCEPT !.hp = extract_int_value(t)]
    ELSE IF Has(t, "\"melee_dice_sides\"")
    THEN [current EXCEPT !.melee_dice_sides = extract_int_value(t)]
    ELSE IF Has(t, "\"melee_dice\"")
    THEN [current EXCEPT !.melee_dice = extract_int_value(t)]
    ELSE IF Has(t, "\"armor\"")
    THEN [current EXCEPT !.armor = extract_int_value(t)]
    ELSE current

\* MonsterOpen without current = Monster()
MonsterOpen_KeepCurrent(st) == [st EXCEPT !.in_object = TRUE]

\* the line with '{': in_object = true; current = Monster(); continue
MonsterOpen(st) == [st EXCEPT !.in_object = TRUE, !.current = EmptyMonster]

\* the line with '}': push if id and name are set, leave the object; continue
MonsterClose(st) ==
    IF st.in_object
    THEN [st EXCEPT
            !.monsters = IF st.current.id /= "" /\ st.current.name /= ""
                         THEN Append(st.monsters, st.current)
                         ELSE st.monsters,
            !.in_object = FALSE]
    ELSE st

MonstersStep(st, line) ==
    LET t == trim(line)
    IN  IF t = "" \/ t = "[" \/ t = "]" THEN st
        ELSE IF Has(t, "{") THEN MonsterOpen(st)
        ELSE IF Has(t, "}") THEN MonsterClose(st)
        ELSE IF ~st.in_object THEN st
        ELSE [st EXCEPT !.current = MonsterField(st.current, t)]

(***************************************************************************)
(* load_recipes: the body of its getline loop.                             *)
(* st is [recipes, current, thrown]; thrown is set when std::stoi throws,  *)
(* which nothing in load_recipes or main catches.                          *)
(***************************************************************************)
\* RecipeOpen taking '[' for the start of a record as well
RecipeOpen_Bracket(current, trimmed) ==
    IF Has(trimmed, "{") \/ Has(trimmed, "[") THEN EmptyRecipe ELSE current

\* current = Recipe() on a line with "{"
RecipeOpen(current, trimmed) ==
    IF Has(trimmed, "{") THEN EmptyRecipe ELSE current

RecipeId(current, trimmed) ==
    LET id_pos == Find(trimmed, "\"id\"", 0)
        v      == QuotedAfter(trimmed, id_pos)
    IN  IF id_pos /= npos /\ v.found
        THEN [current EXCEPT !.id = v.value]
        ELSE current

RecipeResult(current, trimmed) ==
    LET res_pos == Find(trimmed, "\"result\"", 0)
        v       == QuotedAfter(trimmed, res_pos)
    IN  IF res_pos /= npos /\ v.found
        THEN [current EXCEPT !.result = v.value]
        ELSE current

\* The component entry of a line: kind is "none" (nothing to add), "pair"
\* (emplace_back(comp_id, qty)) or "throw" (std::stoi(qty_str) threw).
RecipePair(trimmed) ==
    LET q1      == Find(trimmed, "\"", 0)
        q2      == Find(trimmed, "\"", q1 + 1)
        comp_id == Substr(trimmed, q1 + 1, q2 - q1 - 1)
        comma   == Find(trimmed, ",", q2)
        qty     == Stoi(SubstrFrom(trimmed, comma + 1))
    IN  IF ~Has(trimmed, "[ [") THEN [kind |-> "none"]
        ELSE IF q1 = npos \/ q2 = npos THEN [kind |-> "none"]
        ELSE IF comma = npos THEN [kind |-> "none"]
        ELSE IF ~qty.ok THEN [kind |-> "throw", what |-> qty.err]
        ELSE [kind |-> "pair", pair |-> Pair(comp_id, qty.val)]

\* RecipeComponents dropping a pair the recipe already holds
RecipeComponents_Unique(current, trimmed) ==
    LET p == RecipePair(trimmed)
    IN  IF p.kind = "pair"
           /\ \A i \in DOMAIN current.components : current.components[i] /= p.pair
        THEN [current EXCEPT !.components = Append(@, p.pair)]
        ELSE current

RecipeComponents(current, trimmed) ==
    LET p == RecipePair(trimmed)
    IN  IF p.kind = "pair"
        THEN [current EXCEPT !.components = Append(@, p.pair)]
        ELSE current

\* RecipeClose testing the id alone
RecipeClose_IdOnly(st, trimmed) ==
    IF Has(trimmed, "}") /\ st.current.id /= ""
    THEN [st EXCEPT !.recipes = Append(st.recipes, st.current),
                    !.current = EmptyRecipe]
    ELSE st

\* the line with "}": push and reset if id and result are set
RecipeClose(st, trimmed) ==
    IF Has(trimmed, "}") /\ st.current.id /= "" /\ st.current.result /= ""
    THEN [st EXCEPT !.recipes = Append(st.recipes, st.current),
                    !.current = EmptyRecipe]
    ELSE st

RecipesStep(st, line) ==
    LET pos     == FindFirstNotOf(line, {" ", "\t"})
        trimmed == SubstrFrom(line, pos)
        c1      == RecipeResult(RecipeId(RecipeOpen(st.current, trimmed), trimmed),
                                trimmed)
    IN  IF pos = npos THEN st
        ELSE IF RecipePair(trimmed).kind = "throw"
        THEN [st EXCEPT !.current = c1, !.thrown = TRUE]
        ELSE RecipeClose([st EXCEPT !.current = RecipeComponents(c1, trimmed)],
                         trimmed)

(***************************************************************************)
(* Input.  A file is read line by line; its content is built from chunks:  *)
(* whole objects of the documented dialect, and single lines, well-formed  *)
(* or not, in any order.                                                   *)
(***************************************************************************)
\* how many chunks a file holds at most
MaxChunks == 3

\* the file-level array wrapper
LArrayOpen == "["

LArrayClose == "]"

LOpen == "  {"

LClose == "  },"

LIdPlank == "    \"id\": \"plank\","

LNamePlank == "    \"name\": {\"str\": \"Wooden Plank\"}"

LItemRope == "  {\"id\":\"rope\",\"name\":{\"str\":\"Rope\"}},"

LIdKnife == "    \"id\": \"knife\","

LNameEmpty == "    \"name\": {\"str\": \"\"}"

LStrOnly == "    \"str\": \"Loose\""

LNameOnly == "    \"name\": \"Bare\""

LIdNoColon == "    \"id\" \"broken\""

LStrNoClose == "    \"name\": {\"str\": \"open}"

LIdRat == "    \"id\": \"rat\","

LNameRat == "    \"name\": {\"str\": \"Rat\"},"

LHp5 == "    \"hp\": 5"

LMonsterRat == "{\"id\":\"rat\",\"name\":{\"str\":\"Rat\"},\"hp\":5}"

LIdBat == "    \"id\": \"bat\","

\* a name line without braces
LNameBat == "    \"name\": \"str\" \"Bat\","

LHp7 == "    \"hp\": 7,"

LDice2 == "    \"melee_dice\": 2,"

LHpWord == "    \"hp\": lots,"

LArmorBig == "    \"armor\": 99999999999"

LDiceNoColon == "    \"melee_dice\" 2"

LSidesNoDigits == "    \"melee_dice_sides\": ,"

\* a whitespace-only line
LBlank == "   "

\* an id with a comma inside its quotes
LIdComma == "    \"id\": \"cave,bat\","

\* two integer keys on one line
LArmorHp == "    \"armor\": 2, \"hp\": 5"

LIdRaft == "    \"id\": \"raft\","

LResultRaft == "    \"result\": \"raft\","

LComponents == "    \"components\": ["

LPairRope == "      [ [ \"rope\", 1 ] ],"

LPairPlank == "      [ [ \"plank\", 2 ] ]"

LArrayEnd == "    ]"

LRecipeTorch == "{\"id\":\"torch\",\"result\":\"torch\"}"

LPairNoQuote == "      [ [ plank, 2 ] ],"

LPairNoComma == "      [ [ \"plank\" 2 ] ]"

LPairNoInt == "      [ [ \"plank\", two ] ]"

\* The well-formed objects of each dialect, with the record each one means.
ItemObjects ==
    { [lines |-> <<LOpen, LIdPlank, LNamePlank, LClose>>,
       rec   |-> Item("plank", "Wooden Plank")],
      [lines |-> <<LItemRope>>,
       rec   |-> Item("rope", "Rope")] }

MonsterObjects ==
    { [lines |-> <<LOpen, LIdRat, LNameRat, LHp5, LClose>>,
       rec   |-> [EmptyMonster EXCEPT !.id = "rat", !.name = "Rat", !.hp = 5]],
      [lines |-> <<LMonsterRat>>,
       rec   |-> [EmptyMonster EXCEPT !.id = "rat", !.name = "Rat", !.hp = 5]] }

RecipeObjects ==
    { [lines |-> <<LOpen, LIdRaft, LResultRaft, LComponents, LPairRope,
                   LPairPlank, LArrayEnd, LClose>>,
       rec   |-> [id |-> "raft", result |-> "raft",
                  components |-> <<Pair("rope", 1), Pair("plank", 2)>>]],
      [lines |-> <<LRecipeTorch>>,
       rec   |-> [id |-> "torch", result |-> "torch", components |-> <<>>]] }

Objects(r) ==
    CASE r = "items"    -> ItemObjects
      [] r = "monsters" -> MonsterObjects
      [] r = "recipes"  -> RecipeObjects

\* an object whose name line has no braces, and its first three lines
BatObject == <<LOpen, LIdBat, LNameBat, LHp7, LDice2, LClose>>

BatHead == <<LOpen, LIdBat, LNameBat>>

\* an object with a comma in its id, one name marker per line, two integer
\* keys on one line
CaveBatObject == <<LOpen, LIdComma, LStrOnly, LNameOnly, LArmorHp, LClose>>

\* the start of a recipe object, up to its first component
RaftHead == <<LOpen, LIdRaft, LResultRaft, LComponents, LPairPlank>>

Singles(S) == { <<l>> : l \in S }

Chunks(r) ==
    { o.lines : o \in Objects(r) } \cup Singles({LArrayOpen, LArrayClose}) \cup
    CASE r = "items" ->
           Singles({LIdPlank, LNamePlank, LIdKnife, LNameEmpty, LStrOnly,
                    LNameOnly, LIdNoColon, LStrNoClose})
      [] r = "monsters" ->
           {BatObject, BatHead, CaveBatObject} \cup
           Singles({LOpen, LClose, LIdBat, LNameBat, LHp7, LHpWord,
                    LArmorBig, LDiceNoColon, LSidesNoDigits, LBlank})
      [] r = "recipes" ->
           {RaftHead} \cup
           Singles({LOpen, LClose, LIdRaft, LResultRaft, LPairPlank,
                    LPairRope, LPairNoQuote, LPairNoComma, LPairNoInt,
                    LBlank})

(***************************************************************************)
(* State.                                                                  *)
(***************************************************************************)
VARIABLES
    reader,     \* the function running: "items", "monsters" or "recipes"
    openable,   \* whether std::ifstream f(filename) opens the file
    pc,         \* "open", "loop", "returned", or "thrown" (exception escaped)
    read,       \* the lines std::getline has returned so far
    ahead,      \* the lines of the chunk being read that are still to come
    nchunks,    \* how many chunks of the file have been entered
    items,      \* load_items' vector
    monsters,   \* load_monsters' vector
    recipes,    \* load_recipes' vector
    current,    \* the record being assembled
    in_object,  \* load_monsters' flag
    cerr,       \* what has been written to std::cerr
    pass,       \* 1 in the first call of the reader, 2 in a second call
    first,      \* what the first call returned, once a second call has begun
    inventory,  \* Player::inventory
    item_id,    \* the item_id argument of the last remove_item call
    out_item,   \* the caller's Item that remove_item gets as out_item
    found,      \* what the last remove_item call returned
    world_items, \* main's world_items
    hp,         \* player.hp
    enemy,      \* main's enemy, the copy of a monster that is fought
    command,    \* main's command, of the command line read last
    arg         \* main's arg, of the command line read last

\* the calls of a reader
passes == <<pass, first>>

\* the player and the caller's side of remove_item
player == <<inventory, item_id, out_item, found>>

\* what the command loop of main works on besides the player's inventory
game == <<world_items, hp, enemy, command, arg>>

vars == <<reader, openable, pc, read, ahead, nchunks, items, monsters,
          recipes, current, in_object, cerr, pass, first, inventory,
          item_id, out_item, found, world_items, hp, enemy, command, arg>>

Readers == {"items", "monsters", "recipes"}

\* the paths main passes
FileName(r) ==
    CASE r = "items"    -> "data/json/items.json"
      [] r = "monsters" -> "data/json/monsters.json"
      [] r = "recipes"  -> "data/json/recipes.json"

\* Item current; / Monster current; / Recipe current;
Fresh(r) ==
    CASE r = "items"    -> EmptyItem
      [] r = "monsters" -> EmptyMonster
      [] r = "recipes"  -> EmptyRecipe

Init ==
    /\ reader \in Readers
    /\ openable \in BOOLEAN
    /\ pc = "open"
    /\ read = <<>>
    /\ ahead = <<>>
    /\ nchunks = 0
    /\ items = <<>>
    /\ monsters = <<>>
    /\ recipes = <<>>
    /\ current = Fresh(reader)
    /\ in_object = FALSE
    /\ cerr = <<>>
    /\ pass = 1
    /\ first = <<>>
    /\ inventory = <<>>
    /\ item_id = ""
    /\ out_item = EmptyItem
    /\ found = FALSE
    /\ world_items = <<>>
    /\ hp = StartHp
    /\ enemy = EmptyMonster
    /\ command = ""
    /\ arg = ""

\* OpenFail without the early return: the loop runs on the failed stream
OpenFail_NoReturn ==
    /\ pc = "open"
    /\ ~openable
    /\ cerr' = Append(cerr, "Failed to open " \o FileName(reader))
    /\ pc' = "loop"
    /\ UNCHANGED <<reader, openable, read, ahead, nchunks, items, monsters,
                   recipes, current, in_object, passes, player,
                   game>>

\* if (!f) { std::cerr << "Failed to open " << filename; return {}; }
OpenFail ==
    /\ pc = "open"
    /\ ~openable
    /\ cerr' = Append(cerr, "Failed to open " \o FileName(reader))
    /\ pc' = "returned"
    /\ UNCHANGED <<reader, openable, read, ahead, nchunks, items, monsters,
                   recipes, current, in_object, passes, player,
                   game>>

\* the stream is good: the locals are constructed and the loop starts
OpenOk ==
    /\ pc = "open"
    /\ openable
    /\ pc' = "loop"
    /\ current' = Fresh(reader)
    /\ in_object' = FALSE
    /\ UNCHANGED <<reader, openable, read, ahead, nchunks, items, monsters,
                   recipes, cerr, passes, player,
                   game>>

\* What std::getline can return next: the rest of the chunk being read, or
\* the start of another chunk.  A second call reads the file of the first.
Coming ==
    IF ahead /= <<>> THEN {ahead}
    ELSE IF pass = 1 /\ nchunks < MaxChunks THEN Chunks(reader)
    ELSE {}

\* std::getline(f, line) returns Head(c)
GetLine(c) ==
    /\ read' = Append(read, Head(c))
    /\ ahead' = Tail(c)
    /\ nchunks' = IF ahead = <<>> THEN nchunks + 1 ELSE nchunks

\* one iteration of load_items' loop
ItemsLine ==
    /\ pc = "loop"
    /\ reader = "items"
    /\ \E c \in Coming :
          LET st == ItemsStep([items |-> items, current |-> current], Head(c))
          IN  /\ GetLine(c)
              /\ items' = st.items
              /\ current' = st.current
    /\ UNCHANGED <<reader, openable, pc, monsters, recipes, in_object, cerr,
                   passes, player,
                   game>>

\* one iteration of load_monsters' loop
MonstersLine ==
    /\ pc = "loop"
    /\ reader = "monsters"
    /\ \E c \in Coming :
          LET st == MonstersStep([monsters |-> monsters, current |-> current,
                                  in_object |-> in_object], Head(c))
          IN  /\ GetLine(c)
              /\ monsters' = st.monsters
              /\ current' = st.current
              /\ in_object' = st.in_object
    /\ UNCHANGED <<reader, openable, pc, items, recipes, cerr, passes,
                   player, game>>

\* one iteration of load_recipes' loop; an exception from std::stoi leaves
\* the function
RecipesLine ==
    /\ pc = "loop"
    /\ reader = "recipes"
    /\ \E c \in Coming :
          LET st == RecipesStep([recipes |-> recipes, current |-> current,
                                 thrown |-> FALSE], Head(c))
          IN  /\ GetLine(c)
              /\ recipes' = st.recipes
              /\ current' = st.current
              /\ pc' = IF st.thrown THEN "thrown" ELSE "loop"
    /\ UNCHANGED <<reader, openable, items, monsters, in_object, cerr,
                   passes, player,
                   game>>

\* std::getline fails at the end of the file: return the vector
Return ==
    /\ pc = "loop"
    /\ ahead = <<>>
    /\ pc' = "returned"
    /\ UNCHANGED <<reader, openable, read, ahead, nchunks, items, monsters,
                   recipes, current, in_object, cerr, passes, player,
                   game>>

Next ==
    \/ OpenFail
    \/ OpenOk
    \/ ItemsLine
    \/ MonstersLine
    \/ RecipesLine
    \/ Return

Spec == Init /\ [][Next]_vars

\* the vector the running reader returns
Output ==
    CASE reader = "items"    -> items
      [] reader = "monsters" -> monsters
      [] reader = "recipes"  -> recipes

\* the reader has returned from an opened file: read is the whole file
Finished == openable /\ pc = "returned"

(***************************************************************************)
(* Well-formed arrays: objects of the dialect one after the other,         *)
(* optionally between the "[" and "]" lines.                               *)
(***************************************************************************)
StartsWith(lines, prefix) ==
    /\ Len(prefix) <= Len(lines)
    /\ SubSeq(lines, 1, Len(prefix)) = prefix

\* [ok, recs]: whether lines is a run of objects, and the records they mean
RECURSIVE ObjectRun(_, _)
ObjectRun(r, lines) ==
    IF lines = <<>> THEN [ok |-> TRUE, recs |-> <<>>]
    ELSE LET heads == { o \in Objects(r) : StartsWith(lines, o.lines) }
         IN  IF heads = {} THEN [ok |-> FALSE, recs |-> <<>>]
             ELSE LET o    == CHOOSE h \in heads : TRUE
                      rest == ObjectRun(r, SubSeq(lines, Len(o.lines) + 1,
                                                  Len(lines)))
                  IN  [ok |-> rest.ok, recs |-> <<o.rec>> \o rest.recs]

Unwrapped(lines) ==
    IF Len(lines) >= 2 /\ Head(lines) = LArrayOpen
                      /\ lines[Len(lines)] = LArrayClose
    THEN SubSeq(lines, 2, Len(lines) - 1)
    ELSE lines

WellFormedArray(r, lines) == ObjectRun(r, Unwrapped(lines)).ok

RecordsOf(r, lines) == ObjectRun(r, Unwrapped(lines)).recs

(***************************************************************************)
(* C1.  For every well-formed item, monster or recipe array, the reader    *)
(* returns exactly one record per object, in file order, nothing sorted    *)
(* and nothing dropped as a duplicate.                                     *)
(***************************************************************************)
C1_OneRecordPerObject ==
    (Finished /\ WellFormedArray(reader, read))
        => Output = RecordsOf(reader, read)

(***************************************************************************)
(* C2.  A monster file whose only object is the single line                *)
(* {"id":"rat","name":{"str":"Rat"},"hp":5} makes load_monsters return     *)
(* exactly one Monster: id "rat", name "Rat", hp 5 and 0 in melee_dice,    *)
(* melee_dice_sides and armor.                                             *)
(***************************************************************************)
C2_SingleLineRat ==
    (Finished /\ reader = "monsters" /\ read = <<LMonsterRat>>)
        => monsters = << [id |-> "rat", name |-> "Rat", hp |-> 5,
                          melee_dice |-> 0, melee_dice_sides |-> 0,
                          armor |-> 0] >>

\* a loop iteration: std::getline returned one more line
LineRead == read' /= read

\* the line the last iteration worked on
LastLine(lines) == lines[Len(lines)]

\* the index of the last line of lines that holds "{", 0 when there is none
LastOpen(lines) ==
    LET opens == { i \in 1 .. Len(lines) : Has(lines[i], "{") }
    IN  IF opens = {} THEN 0 ELSE MaxOf(opens)

(***************************************************************************)
(* C3.  Every Monster in load_monsters' output has a non-empty id and a    *)
(* non-empty name, every Recipe in load_recipes' output a non-empty id and *)
(* a non-empty result; a recipe object with an id but no result when its   *)
(* "}" line is processed appends nothing at that line.                     *)
(***************************************************************************)
RequiredFieldsSet ==
    /\ \A i \in DOMAIN monsters : monsters[i].id /= "" /\ monsters[i].name /= ""
    /\ \A i \in DOMAIN recipes : recipes[i].id /= "" /\ recipes[i].result /= ""

RecipeClosedWithoutResult ==
    /\ reader = "recipes"
    /\ LineRead
    /\ Has(LastLine(read'), "}")
    /\ ~Has(LastLine(read'), "{")
    /\ ~Has(LastLine(read'), "\"result\"")
    /\ current.id /= ""
    /\ current.result = ""

C3_RequiredFields ==
    /\ []RequiredFieldsSet
    /\ [][RecipeClosedWithoutResult => recipes' = recipes]_vars

C3_Witness ==
    /\ reader = "recipes"
    /\ pc = "returned"
    /\ read = <<LOpen, LIdRaft, LClose>>
    /\ current.id = "raft"
    /\ recipes = <<>>

(***************************************************************************)
(* C4.  Every Item in load_items' output has a non-empty id and a          *)
(* non-empty name.                                                         *)
(***************************************************************************)
C4_ItemsComplete ==
    \A i \in DOMAIN items : items[i].id /= "" /\ items[i].name /= ""

(***************************************************************************)
(* C5.  If the source cannot be opened, the reader emits one diagnostic,   *)
(* processes no line and returns the empty sequence; no exception leaves   *)
(* it.                                                                     *)
(***************************************************************************)
C5_OpenError ==
    (~openable /\ pc /= "open")
        => /\ pc = "returned"
           /\ cerr = << "Failed to open " \o FileName(reader) >>
           /\ read = <<>>
           /\ Output = <<>>

C5_Witness == ~openable /\ pc = "returned" /\ Len(cerr) = 1

(***************************************************************************)
(* C6.  For every openable source and every sequence of lines, each reader *)
(* processes all lines and returns: no line content makes it abort         *)
(* mid-file or lets an exception escape.                                   *)
(***************************************************************************)
C6_NeverAborts == openable => pc /= "thrown"

(***************************************************************************)
(* C7.  In load_recipes a line with the "[ [" marker that is malformed as  *)
(* a pair (no quoted substring, no comma after the closing quote, or no    *)
(* integer after that comma) adds no pair to the current recipe, and       *)
(* parsing continues with the next line.                                   *)
(***************************************************************************)
MalformedPairLines == {LPairNoQuote, LPairNoComma, LPairNoInt}

C7_MalformedPairSkipped ==
    [][(reader = "recipes" /\ LineRead
            /\ LastLine(read') \in MalformedPairLines)
        => /\ pc' = "loop"
           /\ current'.components = current.components
           /\ recipes' = recipes]_vars

(***************************************************************************)
(* C8.  In load_recipes every matched pair line between a recipe's "{"     *)
(* line and its "}" line is appended to that recipe's components in        *)
(* encounter order, duplicates kept; components is not cleared before the  *)
(* record closes; the emitted recipe carries exactly those pairs.  The     *)
(* line [ [ "plank", 2 ] ] contributes ("plank", 2).                       *)
(***************************************************************************)
\* the pair a line of the dialect stands for, as a sequence of 0 or 1 pairs
PairOfLine(line) ==
    CASE line = LPairPlank -> << Pair("plank", 2) >>
      [] line = LPairRope  -> << Pair("rope", 1) >>
      [] OTHER             -> <<>>

RECURSIVE PairsOfLines(_)
PairsOfLines(lines) ==
    IF lines = <<>> THEN <<>>
    ELSE PairOfLine(Head(lines)) \o PairsOfLines(Tail(lines))

\* a step that appends a recipe: the lines from its "{" line to this, its
\* first "}" line, give its components
RecipeEmittedWithItsPairs ==
    (reader = "recipes" /\ recipes' /= recipes)
        => LET k == Len(read')
               j == LastOpen(read')
           IN  (j >= 1 /\ \A i \in (j + 1) .. (k - 1) : ~Has(read'[i], "}"))
                   => /\ recipes' = Append(recipes, LastLine(recipes'))
                      /\ LastLine(recipes').components
                             = PairsOfLines(SubSeq(read', j, k))

\* a step inside a record appends the line's pair and keeps the others
ComponentsKept ==
    (reader = "recipes" /\ LineRead /\ pc' = "loop" /\ recipes' = recipes
            /\ ~Has(LastLine(read'), "{"))
        => current'.components
               = current.components \o PairOfLine(LastLine(read'))

C8_ComponentsInOrder ==
    [][RecipeEmittedWithItsPairs /\ ComponentsKept]_vars

C8_Witness ==
    /\ reader = "recipes"
    /\ pc = "returned"
    /\ read = RaftHead \o <<LPairPlank, LClose>>
    /\ recipes = << [id |-> "raft", result |-> "raft",
                     components |-> <<Pair("plank", 2), Pair("plank", 2)>>] >>

(***************************************************************************)
(* C9.  Every Monster load_monsters emits has 0 in each of hp, melee_dice, *)
(* melee_dice_sides and armor whose key is on no line of its object; a     *)
(* value read for an earlier object never carries over into a later one.   *)
(***************************************************************************)
IntFields == {"hp", "melee_dice", "melee_dice_sides", "armor"}

Key(field) == "\"" \o field \o "\""

C9_AbsentIntsAreZero ==
    [][(reader = "monsters" /\ monsters' /= monsters)
        => LET k == Len(read')
               j == LastOpen(SubSeq(read', 1, k - 1))
               m == LastLine(monsters')
           IN  /\ j >= 1
               /\ monsters' = Append(monsters, m)
               /\ \A f \in IntFields :
                     (\A i \in j .. k : ~Has(read'[i], Key(f))) => m[f] = 0]_vars

C9_Witness ==
    /\ reader = "monsters"
    /\ pc = "returned"
    /\ read = BatObject \o BatHead \o <<LClose>>
    /\ Len(monsters) = 2
    /\ monsters[1].hp = 7 /\ monsters[1].melee_dice = 2
    /\ monsters[2].hp = 0 /\ monsters[2].melee_dice = 0

(***************************************************************************)
(* C10.  In load_monsters, when the text of an integer field cannot be     *)
(* parsed as a number (no digits, non-numeric content, missing colon, out  *)
(* of int range), the field is set to 0 and the parse continues; no error  *)
(* is surfaced.                                                            *)
(***************************************************************************)
UnparsableInts ==
    { [line |-> LSidesNoDigits, field |-> "melee_dice_sides"],
      [line |-> LHpWord,        field |-> "hp"],
      [line |-> LDiceNoColon,   field |-> "melee_dice"],
      [line |-> LArmorBig,      field |-> "armor"] }

C10_IntegerFallback ==
    [][\A u \in UnparsableInts :
          (reader = "monsters" /\ in_object /\ LineRead
                /\ LastLine(read') = u.line)
            => /\ current' = [current EXCEPT ![u.field] = 0]
               /\ pc' = "loop"
               /\ in_object'
               /\ monsters' = monsters
               /\ cerr' = cerr]_vars

C10_Witness ==
    /\ reader = "monsters"
    /\ pc = "loop"
    /\ read = BatHead \o <<LHp7, LHpWord>>
    /\ in_object
    /\ current.id = "bat"
    /\ current.hp = 0

(***************************************************************************)
(* A second call of the same reader on the same path.                      *)
(***************************************************************************)
\* how many chunks a file has at most when it is read a second time
MaxReread == 2

\* Reopen with the vector of the first call kept in place of a new one
Reopen_KeepVector ==
    /\ pc = "returned"
    /\ openable
    /\ pass = 1
    /\ nchunks <= MaxReread
    /\ first' = Output
    /\ pass' = 2
    /\ pc' = "open"
    /\ read' = <<>>
    /\ ahead' = read
    /\ UNCHANGED <<reader, openable, nchunks, items, monsters, recipes,
                   current, in_object, cerr, player, game>>

\* The reader is called again on the file it has just read: its vector is a
\* new, empty one, and the stream starts at the first line of the file.
Reopen ==
    /\ pc = "returned"
    /\ openable
    /\ pass = 1
    /\ nchunks <= MaxReread
    /\ first' = Output
    /\ pass' = 2
    /\ pc' = "open"
    /\ items' = <<>>
    /\ monsters' = <<>>
    /\ recipes' = <<>>
    /\ read' = <<>>
    /\ ahead' = read
    /\ UNCHANGED <<reader, openable, nchunks, current, in_object, cerr,
                   player, game>>

NextTwice ==
    \/ Next
    \/ Reopen

SpecTwice == Init /\ [][NextTwice]_vars

(***************************************************************************)
(* C11.  A reader called a second time on the same file starts its loop    *)
(* with an empty vector, an empty in-progress record and, in               *)
(* load_monsters, outside any object; when it returns, its vector equals   *)
(* the vector the first call returned.                                     *)
(***************************************************************************)
C11_SecondCallSame ==
    /\ (pass = 2 /\ pc = "loop" /\ read = <<>>)
          => /\ Output = <<>>
             /\ current = Fresh(reader)
             /\ ~in_object
    /\ (pass = 2 /\ pc = "returned") => Output = first

C11_Witness ==
    /\ pass = 2
    /\ pc = "returned"
    /\ reader = "items"
    /\ WellFormedArray("items", read)
    /\ Len(first) = 2
    /\ items = first

(***************************************************************************)
(* C12.  In load_items the vector has, after every line, as many records   *)
(* as lines read so far gave a name; and when the line                     *)
(* "name": {"str": "Wooden Plank"} is read after the line "id": "plank",   *)
(* the record plank / Wooden Plank is appended at that very line,          *)
(* whatever follows.                                                       *)
(***************************************************************************)
\* the item lines that hold a quoted text after "str", and that text
NameOfLine ==
    { [line |-> LNamePlank, name |-> "Wooden Plank"],
      [line |-> LItemRope,  name |-> "Rope"],
      [line |-> LNameEmpty, name |-> ""],
      [line |-> LStrOnly,   name |-> "Loose"] }

NameLines == { n.line : n \in NameOfLine }

NamesRead(lines) == { i \in 1..Len(lines) : lines[i] \in NameLines }

C12_CommitAtNameLine ==
    /\ [](reader = "items" => Len(items) = Cardinality(NamesRead(read)))
    /\ [][(reader = "items" /\ LineRead /\ LastLine(read') = LNamePlank
              /\ current.id = "plank")
            => items' = Append(items, Item("plank", "Wooden Plank"))]_vars

C12_Witness ==
    /\ reader = "items"
    /\ pc = "loop"
    /\ read = <<LIdPlank, LNamePlank>>
    /\ items = <<Item("plank", "Wooden Plank")>>

(***************************************************************************)
(* C13.  In load_items and load_monsters, a line that holds only one of    *)
(* the markers "name" and "str" sets no name and appends no record.        *)
(***************************************************************************)
C13_NameNeedsBothMarkers ==
    [][(reader \in {"items", "monsters"} /\ LineRead
          /\ Has(LastLine(read'), "\"name\"")
                /= Has(LastLine(read'), "\"str\""))
        => /\ current'.name = current.name
           /\ Output' = Output]_vars

(***************************************************************************)
(* C14.  When a line holds the key of a string field and a lookup for its  *)
(* value fails (no colon at or after the key, no quote after the colon,    *)
(* no closing quote), the field of the in-progress record keeps its value  *)
(* and the line appends no record.                                         *)
(***************************************************************************)
\* lines with a key and a failing lookup, and the field of that key
FailedLookups ==
    { [line |-> LIdNoColon,  field |-> "id"],
      [line |-> LStrNoClose, field |-> "name"] }

C14_FailedLookupKeepsField ==
    [][\A u \in FailedLookups :
          (LineRead /\ LastLine(read') = u.line)
            => /\ current'[u.field] = current[u.field]
               /\ Output' = Output]_vars

(***************************************************************************)
(* C15.  In every reader, right after a line that appends a record and     *)
(* right after an object-close line whose record lacks a required field,   *)
(* the in-progress record is empty.                                        *)
(***************************************************************************)
\* the object-close line meets a record without id or name / result
Discard ==
    /\ LastLine(read') = LClose
    /\ \/ reader = "monsters" /\ in_object
             /\ (current.id = "" \/ current.name = "")
       \/ reader = "recipes" /\ (current.id = "" \/ current.result = "")

C15_EmptyAfterCommitOrDiscard ==
    [][(LineRead /\ (Output' /= Output \/ Discard))
          => current' = Fresh(reader)]_vars

(***************************************************************************)
(* struct Player: add_item and remove_item, called in any order by the     *)
(* command loop once the readers have returned.                            *)
(***************************************************************************)
\* Player::add_item: inventory.push_back(item)
add_item(inv, item) == Append(inv, item)

\* std::vector::erase(it), it at index i
Erase(inv, i) == SubSeq(inv, 1, i - 1) \o SubSeq(inv, i + 1, Len(inv))

\* the for loop of remove_item with it at index i; [ret, inventory, out_item]
RECURSIVE RemoveLoop(_, _, _, _)
RemoveLoop(inv, id, out, i) ==
    IF i > Len(inv)
    THEN [ret |-> FALSE, inventory |-> inv, out_item |-> out]
    ELSE IF inv[i].id = id
    THEN [ret |-> TRUE, inventory |-> Erase(inv, i), out_item |-> inv[i]]
    ELSE RemoveLoop(inv, id, out, i + 1)

\* remove_item taking the last item with the id instead of the first
remove_item_Last(inv, id, out) ==
    LET hits == { i \in 1..Len(inv) : inv[i].id = id }
    IN  IF hits = {}
        THEN [ret |-> FALSE, inventory |-> inv, out_item |-> out]
        ELSE LET k == CHOOSE i \in hits : \A j \in hits : j <= i
             IN  [ret |-> TRUE, inventory |-> Erase(inv, k),
                  out_item |-> inv[k]]

\* Player::remove_item(item_id, out_item)
remove_item(inv, id, out) == RemoveLoop(inv, id, out, 1)

\* how many items the inventory holds at most
MaxInventory == 3

\* the items add_item is called with: two of them share an id
ItemPool ==
    { Item("plank", "Wooden Plank"), Item("plank", "Old Plank"),
      Item("rope", "Rope") }

\* the ids remove_item is called with: one of them is held by no item
IdPool == {"plank", "rope", "knife"}

\* the state of the reader, which has returned
parser == <<reader, openable, pc, read, ahead, nchunks, items, monsters,
            recipes, current, in_object, cerr>>

InitPlayer ==
    /\ reader = "items"
    /\ openable = TRUE
    /\ pc = "returned"
    /\ read = <<>>
    /\ ahead = <<>>
    /\ nchunks = 0
    /\ items = <<>>
    /\ monsters = <<>>
    /\ recipes = <<>>
    /\ current = EmptyItem
    /\ in_object = FALSE
    /\ cerr = <<>>
    /\ pass = 1
    /\ first = <<>>
    /\ inventory = <<>>
    /\ item_id = ""
    /\ out_item = EmptyItem
    /\ found = FALSE
    /\ world_items = <<>>
    /\ hp = StartHp
    /\ enemy = EmptyMonster
    /\ command = ""
    /\ arg = ""

\* player.add_item(item)
AddItem ==
    /\ Len(inventory) < MaxInventory
    /\ \E item \in ItemPool : inventory' = add_item(inventory, item)
    /\ UNCHANGED <<parser, passes, item_id, out_item, found, game>>

\* found = player.remove_item(id, out_item), out_item the caller's Item
RemoveItem ==
    /\ \E id \in IdPool :
          LET r == remove_item(inventory, id, out_item)
          IN  /\ item_id' = id
              /\ inventory' = r.inventory
              /\ out_item' = r.out_item
              /\ found' = r.ret
    /\ UNCHANGED <<parser, passes, game>>

NextPlayer ==
    \/ AddItem
    \/ RemoveItem

SpecPlayer == InitPlayer /\ [][NextPlayer]_vars

(***************************************************************************)
(* C16.  A call remove_item(id, out): if some item of the inventory has    *)
(* the id, the first such item is copied to out and taken out of the       *)
(* inventory, the other items stay in their order, and the call returns    *)
(* true; if none has, the call returns false and the inventory and out     *)
(* are as before.  (A call is a step that does not grow the inventory.)    *)
(***************************************************************************)
C16_RemoveFirstMatch ==
    [][Len(inventory') <= Len(inventory) =>
         LET hits == { i \in 1..Len(inventory) :
                          inventory[i].id = item_id' }
         IN  IF hits /= {}
             THEN LET k == CHOOSE i \in hits : \A j \in hits : i <= j
                  IN  /\ found'
                      /\ out_item' = inventory[k]
                      /\ Len(inventory') = Len(inventory) - 1
                      /\ \A i \in 1..Len(inventory') :
                            inventory'[i] = IF i < k THEN inventory[i]
                                            ELSE inventory[i + 1]
             ELSE /\ ~found'
                  /\ inventory' = inventory
                  /\ out_item' = out_item]_vars

C16_Witness ==
    /\ found
    /\ item_id = "plank"
    /\ out_item = Item("plank", "Wooden Plank")
    /\ inventory = <<Item("rope", "Rope"), Item("plank", "Old Plank")>>

(***************************************************************************)
(* C17.  On a line where the key of a string field is followed by a        *)
(* colon, a quote after the colon and a quote after that one, the value    *)
(* the reader takes for the field is the text strictly between these two   *)
(* quotes; in load_items, load_recipes and load_monsters alike.            *)
(***************************************************************************)
\* the reference: key, first colon from the key on, first quote after the
\* colon, next quote after it; [ok, value]
RefString(s, key) ==
    LET k     == Find(s, key, 0)
        colon == IF k = npos THEN npos ELSE Find(s, ":", k)
        q1    == IF colon = npos THEN npos ELSE Find(s, "\"", colon + 1)
        q2    == IF q1 = npos THEN npos ELSE Find(s, "\"", q1 + 1)
    IN  [ok    |-> q2 /= npos,
         value |-> IF q2 /= npos THEN SubSeq(s, q1 + 2, q2) ELSE ""]

\* the string fields of a reader's record, the key the value of each
\* follows, and the outer key that has to be on the line as well
StringKeys(r) ==
    CASE r \in {"items", "monsters"} ->
           { [field |-> "id", key |-> "\"id\"", outer |-> "\"id\""],
             [field |-> "name", key |-> "\"str\"", outer |-> "\"name\""] }
      [] r = "recipes" ->
           { [field |-> "id", key |-> "\"id\"", outer |-> "\"id\""],
             [field |-> "result", key |-> "\"result\"",
              outer |-> "\"result\""] }

\* the line is one whose fields the reader looks at: in load_monsters a
\* line inside an object that opens or closes none
FieldLine ==
    /\ LineRead
    /\ reader = "monsters"
          => /\ in_object
             /\ ~Has(LastLine(read'), "{")
             /\ ~Has(LastLine(read'), "}")

\* the value of a field after the line: in the record the line appended,
\* else in the in-progress record
Extracted(field) ==
    IF Output' /= Output THEN LastLine(Output')[field] ELSE current'[field]

C17_StringReference ==
    [][\A k \in StringKeys(reader) :
          (FieldLine /\ Has(LastLine(read'), k.outer)
                /\ RefString(LastLine(read'), k.key).ok)
            => Extracted(k.field) = RefString(LastLine(read'), k.key).value
      ]_vars

(***************************************************************************)
(* C18.  On a line inside an object that holds the key of an integer       *)
(* field, load_monsters stores in that field the reference value: the      *)
(* text after the colon that follows the key, without one trailing comma   *)
(* and without leading whitespace, read as its leading run of decimal      *)
(* digits, 0 when there is none.  (The number too large for an int is     *)
(* C10's case and is left out here.)                                       *)
(***************************************************************************)
\* the number a run of decimal digits at the start of s stands for
RECURSIVE LeadingDigits(_, _)
LeadingDigits(s, acc) ==
    IF s = "" \/ SubSeq(s, 1, 1) \notin Digits THEN acc
    ELSE LeadingDigits(SubSeq(s, 2, Len(s)),
                       10 * acc + DigitVal(SubSeq(s, 1, 1)))

RECURSIVE SkipSpace(_)
SkipSpace(s) ==
    IF s /= "" /\ SubSeq(s, 1, 1) \in IsSpace
    THEN SkipSpace(SubSeq(s, 2, Len(s))) ELSE s

RefInt(s, key) ==
    LET k     == Find(s, key, 0)
        colon == Find(s, ":", k)
        rest  == SubSeq(s, colon + 2, Len(s))
        cut   == IF rest /= "" /\ SubSeq(rest, Len(rest), Len(rest)) = ","
                 THEN SubSeq(rest, 1, Len(rest) - 1) ELSE rest
    IN  IF colon = npos THEN 0 ELSE LeadingDigits(SkipSpace(cut), 0)

C18_IntegerReference ==
    [][\A f \in IntFields :
          (reader = "monsters" /\ FieldLine
                /\ LastLine(read') /= LArmorBig
                /\ Has(LastLine(read'), Key(f)))
            => current'[f] = RefInt(LastLine(read'), Key(f))]_vars

(***************************************************************************)
(* C19.  In load_monsters, a line holding '}' that is read inside an       *)
(* object leaves the reader outside any object, and the record in          *)
(* progress is appended at that line if it has an id and a name, and       *)
(* dropped if not; also when the '}' shares its line with a '{'.           *)
(***************************************************************************)
C19_CloseLeavesObject ==
    [][(reader = "monsters" /\ LineRead /\ in_object
            /\ Has(LastLine(read'), "}"))
        => /\ ~in_object'
           /\ monsters' = IF current.id /= "" /\ current.name /= ""
                          THEN Append(monsters, current)
                          ELSE monsters]_vars

(***************************************************************************)
(* C20.  In load_monsters and load_recipes the line "{" that starts a      *)
(* record makes the in-progress record an empty one; a later line of the   *)
(* same record that does not begin with a brace, such as its line          *)
(* "name": {"str": ...}, leaves every string field whose key it does not   *)
(* hold as it was.                                                         *)
(***************************************************************************)
\* lines ends inside a record: a line "{" followed by brace-free lines only
InRecord(lines) ==
    \E j \in 1..Len(lines) :
        /\ lines[j] = LOpen
        /\ \A i \in (j + 1)..Len(lines) :
              ~Has(lines[i], "{") /\ ~Has(lines[i], "}")

\* the first non-blank character of the line is a brace
BraceFirst(line) ==
    LET k == FindFirstNotOf(line, {" ", "\t"})
    IN  k /= npos /\ CharAt(line, k) \in {"{", "}"}

\* the string fields of the reader's record and their keys
KeptFields(r) ==
    CASE r = "monsters" -> {"id", "name"}
      [] r = "recipes"  -> {"id", "result"}

C20_ResetOnlyAtOpen ==
    [][(reader \in {"monsters", "recipes"} /\ LineRead)
        => /\ LastLine(read') = LOpen => current' = Fresh(reader)
           /\ (InRecord(read) /\ ~BraceFirst(LastLine(read')))
                => \A f \in KeptFields(reader) :
                      Has(LastLine(read'), Key(f))
                          \/ current'[f] = current[f]]_vars

(***************************************************************************)
(* C21.  In load_monsters and load_recipes, a line read outside any        *)
(* object (before the first '{', or after a '}' and before the next '{')   *)
(* that opens no object changes neither the in-progress record nor the     *)
(* vector.                                                                 *)
(***************************************************************************)
\* lines ends outside any object: it has no brace, or its last line with a
\* brace holds '}' and no '{'
Outside(lines) ==
    LET braces == { i \in 1..Len(lines) :
                       Has(lines[i], "{") \/ Has(lines[i], "}") }
    IN  braces = {} \/ ~Has(lines[MaxOf(braces)], "{")

C21_OutsideLinesIgnored ==
    [][(reader \in {"monsters", "recipes"} /\ LineRead /\ Outside(read)
            /\ ~Has(LastLine(read'), "{"))
        => /\ current' = current
           /\ Output' = Output]_vars

(***************************************************************************)
(* C22.  In load_monsters and load_recipes, a line that is "[" or "]"      *)
(* once trimmed, or holds whitespace only, changes nothing: not the        *)
(* in-progress record, not whether the reader is inside an object, not     *)
(* the vector.                                                             *)
(***************************************************************************)
IgnoredLines == {LArrayOpen, LArrayClose, LArrayEnd, LBlank}

C22_ArrayMarkersIgnored ==
    [][(reader \in {"monsters", "recipes"} /\ LineRead
            /\ LastLine(read') \in IgnoredLines)
        => /\ current' = current
           /\ in_object' = in_object
           /\ Output' = Output
           /\ pc' = pc]_vars

C22_Witness ==
    /\ reader = "recipes"
    /\ pc = "loop"
    /\ read = RaftHead \o <<LArrayClose>>
    /\ current.id = "raft"
    /\ current.components = <<Pair("plank", 2)>>

(***************************************************************************)
(* C23.  When a record is appended, each of its string fields holds the    *)
(* value of the last line of the record on which the field's key is        *)
(* followed by a colon and a quoted text; a later line with the key and    *)
(* no such text does not change it.                                        *)
(***************************************************************************)
\* the first line of the record that the last line of lines completes: in
\* load_items the line after the previous name, else the line "{" (0 when
\* the lines since it are not brace-free)
RecordStart(r, lines) ==
    LET k == Len(lines)
    IN  IF r = "items"
        THEN LET names == NamesRead(SubSeq(lines, 1, k - 1))
             IN  IF names = {} THEN 1 ELSE MaxOf(names) + 1
        ELSE IF InRecord(SubSeq(lines, 1, k - 1))
        THEN LastOpen(lines)
        ELSE 0

C23_LastWriteWins ==
    [][(LineRead /\ Output' /= Output /\ RecordStart(reader, read') > 0)
        => \A f \in StringKeys(reader) :
              LET occ == { i \in RecordStart(reader, read')..Len(read') :
                              /\ Has(read'[i], f.outer)
                              /\ RefString(read'[i], f.key).ok }
              IN  occ /= {}
                    => LastLine(Output')[f.field]
                          = RefString(read'[MaxOf(occ)], f.key).value]_vars

(***************************************************************************)
(* main's command loop: take, drop, craft and fight, as functions of the   *)
(* collections they work on.                                               *)
(***************************************************************************)
\* the index of the first element of seq with the id, 0 when there is none:
\* the loops and std::find_if calls over world_items, recipes and monsters
FirstWithId(seq, id) ==
    LET hits == { i \in 1..Len(seq) : seq[i].id = id }
    IN  IF hits = {} THEN 0 ELSE MinOf(hits)

\* take without erasing the item from world_items
take_KeepWorld(world, inv, id) ==
    LET k == FirstWithId(world, id)
    IN  IF k = 0 THEN [world_items |-> world, inventory |-> inv]
        ELSE [world_items |-> world, inventory |-> add_item(inv, world[k])]

\* the take command: [world_items, inventory]
take(world, inv, id) ==
    LET k == FirstWithId(world, id)
    IN  IF k = 0 THEN [world_items |-> world, inventory |-> inv]
        ELSE [world_items |-> Erase(world, k),
              inventory   |-> add_item(inv, world[k])]

\* the drop command: [world_items, inventory]
drop(world, inv, id) ==
    LET r == remove_item(inv, id, EmptyItem)
    IN  IF r.ret
        THEN [world_items |-> Append(world, r.out_item),
              inventory   |-> r.inventory]
        ELSE [world_items |-> world, inventory |-> inv]

\* craft's inner for loop from i on: [inventory, removed_items, qty_found]
RECURSIVE RemoveUpTo(_, _, _, _, _, _)
RemoveUpTo(inv, removed_items, comp_id, qty_needed, i, qty_found) ==
    IF i >= qty_needed
    THEN [inventory |-> inv, removed_items |-> removed_items,
          qty_found |-> qty_found]
    ELSE LET r == remove_item(inv, comp_id, EmptyItem)
         IN  IF r.ret
             THEN RemoveUpTo(r.inventory, Append(removed_items, r.out_item),
                             comp_id, qty_needed, i + 1, qty_found + 1)
             ELSE [inventory |-> inv, removed_items |-> removed_items,
                   qty_found |-> qty_found]

\* craft's loop over selected->components from the component j on:
\* [can_craft, inventory]
RECURSIVE Components(_, _, _, _)
Components(inv, removed_items, components, j) ==
    IF j > Len(components) THEN [can_craft |-> TRUE, inventory |-> inv]
    ELSE LET req == components[j]
             r   == RemoveUpTo(inv, removed_items, req.first, req.second, 0, 0)
         IN  IF r.qty_found < req.second
             THEN [can_craft |-> FALSE,
                   inventory |-> r.inventory \o r.removed_items]
             ELSE Components(r.inventory, r.removed_items, components, j + 1)

\* the item a successful craft adds: the world's first item with the
\* result's id, else a generic item named by the id
Crafted(world, result) ==
    LET k == FirstWithId(world, result)
    IN  IF k /= 0 THEN world[k] ELSE Item(result, result)

\* craft giving back only the items removed for the component that is short
craft_ReturnLast(recs, world, inv, id) ==
    LET s == FirstWithId(recs, id)
        RECURSIVE Comp(_, _)
        Comp(v, j) ==
            IF j > Len(recs[s].components)
            THEN [can_craft |-> TRUE, inventory |-> v]
            ELSE LET req == recs[s].components[j]
                     r   == RemoveUpTo(v, <<>>, req.first, req.second, 0, 0)
                 IN  IF r.qty_found < req.second
                     THEN [can_craft |-> FALSE,
                           inventory |-> r.inventory \o r.removed_items]
                     ELSE Comp(r.inventory, j + 1)
    IN  IF s = 0 THEN inv
        ELSE LET c == Comp(inv, 1)
             IN  IF c.can_craft
                 THEN add_item(c.inventory, Crafted(world, recs[s].result))
                 ELSE c.inventory

\* the craft command: the inventory after it
craft(recs, world, inv, id) ==
    LET s == FirstWithId(recs, id)
    IN  IF s = 0 THEN inv
        ELSE LET c == Components(inv, <<>>, recs[s].components, 1)
             IN  IF c.can_craft
                 THEN add_item(c.inventory, Crafted(world, recs[s].result))
                 ELSE c.inventory

\* the values an int multiplication can leave behind once it has overflowed,
\* which is undefined behaviour: the extremes and the values around 0
Overflowed == {INT_MIN, -1, 0, 1, INT_MAX}

Abs(n) == IF n < 0 THEN -n ELSE n

\* what a * b can be in int arithmetic (a product of exactly INT_MIN is
\* counted with the overflows)
Product(a, b) ==
    IF a = 0 \/ b = 0 THEN {0}
    ELSE IF Abs(a) <= INT_MAX \div Abs(b) THEN {a * b}
    ELSE Overflowed

\* monster_damage made at least 0 instead of at least 1
Damage_AtLeastZero(p) == IF p <= 0 THEN 0 ELSE p

\* monster_damage, given the product p of the enemy's dice and sides
Damage(p) == IF p <= 0 THEN 1 ELSE p

\* What the readers have returned when the command loop starts: either a
\* world of three items with no monster in it, or a world of one item with
\* four monsters.
LoadedItems ==
    << Item("plank", "Wooden Plank"), Item("rope", "Rope"),
       Item("plank", "Old Plank") >>

LoadedRecipes ==
    << [id |-> "raft", result |-> "raft",
        components |-> <<Pair("rope", 1), Pair("plank", 2)>>],
       [id |-> "club", result |-> "club",
        components |-> <<Pair("plank", 1), Pair("knife", 1)>>],
       [id |-> "board", result |-> "plank",
        components |-> <<Pair("rope", 1)>>] >>

LoadedMonsters ==
    << [id |-> "slug", name |-> "Slug", hp |-> 2, melee_dice |-> -3,
        melee_dice_sides |-> 2, armor |-> 0],
       [id |-> "ogre", name |-> "Ogre", hp |-> 8, melee_dice |-> 8,
        melee_dice_sides |-> 8, armor |-> 1],
       [id |-> "wraith", name |-> "Wraith", hp |-> 4, melee_dice |-> 65536,
        melee_dice_sides |-> 65536, armor |-> 0],
       [id |-> "husk", name |-> "Husk", hp |-> 0, melee_dice |-> 0,
        melee_dice_sides |-> 0, armor |-> 0] >>

\* the arguments typed after take, drop, craft and fight; "" is no argument
ItemArgs == {"plank", "rope", "knife", ""}

RecipeArgs == {"raft", "club", "board", "sword", ""}

MonsterArgs == {"slug", "ogre", "wraith", "husk", "troll", ""}

\* the commands that change nothing: list items, inventory, list monsters,
\* and any unknown word
OtherCommands == {"list", "inventory", "dance"}

Loaded ==
    { [items |-> LoadedItems, monsters |-> <<>>],
      [items |-> <<Item("knife", "Knife")>>, monsters |-> LoadedMonsters] }

InitGame ==
    /\ reader = "items"
    /\ openable = TRUE
    /\ pc = "command"
    /\ read = <<>>
    /\ ahead = <<>>
    /\ nchunks = 0
    /\ \E l \in Loaded :
          /\ items = l.items
          /\ world_items = l.items
          /\ monsters = l.monsters
    /\ recipes = LoadedRecipes
    /\ current = EmptyItem
    /\ in_object = FALSE
    /\ cerr = <<>>
    /\ pass = 1
    /\ first = <<>>
    /\ inventory = <<>>
    /\ item_id = ""
    /\ out_item = EmptyItem
    /\ found = FALSE
    /\ hp = StartHp
    /\ enemy = EmptyMonster
    /\ command = ""
    /\ arg = ""

\* what no command changes: the readers' state and results
loaded == <<reader, openable, read, ahead, nchunks, items, monsters,
            recipes, current, in_object, cerr, passes, item_id, out_item,
            found>>

Take ==
    /\ pc = "command"
    /\ command' = "take"
    /\ \E a \in ItemArgs :
          /\ arg' = a
          /\ LET r == take(world_items, inventory, a)
             IN  IF a = ""
                 THEN UNCHANGED <<world_items, inventory>>
                 ELSE /\ world_items' = r.world_items
                      /\ inventory' = r.inventory
    /\ UNCHANGED <<loaded, pc, hp, enemy>>

Drop ==
    /\ pc = "command"
    /\ command' = "drop"
    /\ \E a \in ItemArgs :
          /\ arg' = a
          /\ LET r == drop(world_items, inventory, a)
             IN  IF a = ""
                 THEN UNCHANGED <<world_items, inventory>>
                 ELSE /\ world_items' = r.world_items
                      /\ inventory' = r.inventory
    /\ UNCHANGED <<loaded, pc, hp, enemy>>

Craft ==
    /\ pc = "command"
    /\ command' = "craft"
    /\ \E a \in RecipeArgs :
          /\ arg' = a
          /\ inventory' = IF a = "" THEN inventory
                          ELSE craft(recipes, world_items, inventory, a)
    /\ UNCHANGED <<loaded, pc, hp, enemy, world_items>>

Other ==
    /\ pc = "command"
    /\ command' \in OtherCommands
    /\ arg' = ""
    /\ UNCHANGED <<loaded, pc, hp, enemy, world_items, inventory>>

\* fight <id>: copy the monster and enter the combat loop
Fight ==
    /\ pc = "command"
    /\ command' = "fight"
    /\ \E a \in MonsterArgs :
          /\ arg' = a
          /\ LET k == FirstWithId(monsters, a)
             IN  IF a = "" \/ k = 0
                 THEN UNCHANGED <<pc, enemy>>
                 ELSE /\ enemy' = monsters[k]
                      /\ pc' = "fight"
    /\ UNCHANGED <<loaded, hp, world_items, inventory>>

\* one iteration of while (player.hp > 0 && enemy.hp > 0)
Round ==
    /\ pc = "fight"
    /\ hp > 0
    /\ enemy.hp > 0
    /\ LET damage == IF inventory /= <<>> THEN 5 ELSE 1
       IN  /\ enemy' = [enemy EXCEPT !.hp = @ - damage]
           /\ IF enemy.hp - damage <= 0
              THEN hp' = hp
              ELSE \E p \in Product(enemy.melee_dice, enemy.melee_dice_sides) :
                      hp' = hp - Damage(p)
    /\ UNCHANGED <<loaded, pc, world_items, inventory, command, arg>>

\* the combat loop is left, and with it the scope of enemy: game over if
\* the player is dead
FightEnd ==
    /\ pc = "fight"
    /\ ~(hp > 0 /\ enemy.hp > 0)
    /\ pc' = IF hp <= 0 THEN "exit" ELSE "command"
    /\ enemy' = EmptyMonster
    /\ UNCHANGED <<loaded, hp, world_items, inventory, command, arg>>

Quit ==
    /\ pc = "command"
    /\ command' = "quit"
    /\ arg' = ""
    /\ pc' = "exit"
    /\ UNCHANGED <<loaded, hp, enemy, world_items, inventory>>

\* std::getline(std::cin, line) fails
Eof ==
    /\ pc = "command"
    /\ pc' = "exit"
    /\ UNCHANGED <<loaded, hp, enemy, world_items, inventory, command, arg>>

NextGame ==
    \/ Take
    \/ Drop
    \/ Craft
    \/ Other
    \/ Fight
    \/ Round
    \/ FightEnd
    \/ Quit
    \/ Eof

SpecGame == InitGame /\ [][NextGame]_vars

(***************************************************************************)
(* C24.  A craft command is all or nothing.  If the inventory holds, for   *)
(* every component id of the recipe, as many items as the recipe needs,    *)
(* the command takes exactly that many of each and adds one item with the  *)
(* result's id; if not, or if there is no such recipe, the inventory       *)
(* holds the same items as before, as a multiset.  world_items is          *)
(* unchanged either way.                                                   *)
(***************************************************************************)
\* how many times item occurs in seq
Count(seq, item) == Cardinality({ i \in 1..Len(seq) : seq[i] = item })

\* how many elements of seq have the id
CountId(seq, id) == Cardinality({ i \in 1..Len(seq) : seq[i].id = id })

\* how many items with the id the components ask for in all
RECURSIVE Needed(_, _)
Needed(components, id) ==
    IF components = <<>> THEN 0
    ELSE (IF Head(components).first = id THEN Head(components).second ELSE 0)
         + Needed(Tail(components), id)

\* every item met in a world or an inventory, and every id
AllItems ==
    { Item("plank", "Wooden Plank"), Item("plank", "Old Plank"),
      Item("plank", "plank"), Item("rope", "Rope"), Item("knife", "Knife"),
      Item("raft", "raft"), Item("club", "club") }

AllIds == {"plank", "rope", "knife", "raft", "club"}

SameItems(a, b) == \A item \in AllItems : Count(a, item) = Count(b, item)

\* a step of the command loop that is the named command
CommandStep(name) == pc = "command" /\ pc' = "command" /\ command' = name

C24_CraftAllOrNothing ==
    [][CommandStep("craft") =>
         /\ world_items' = world_items
         /\ LET known == { i \in 1..Len(recipes) : recipes[i].id = arg' }
            IN  IF known = {}
                THEN inventory' = inventory
                ELSE LET rec == recipes[CHOOSE i \in known : TRUE]
                     IN  IF \A id \in AllIds :
                               CountId(inventory, id)
                                  >= Needed(rec.components, id)
                         THEN \A id \in AllIds :
                                 CountId(inventory', id)
                                    = CountId(inventory, id)
                                        - Needed(rec.components, id)
                                        + (IF id = rec.result THEN 1 ELSE 0)
                         ELSE SameItems(inventory', inventory)]_vars

\* the craft of a club has taken the plank, found no knife, and put the
\* plank back behind the rope
C24_Witness ==
    /\ pc = "command"
    /\ command = "craft"
    /\ arg = "club"
    /\ inventory = <<Item("rope", "Rope"), Item("plank", "Wooden Plank")>>
    /\ world_items = <<Item("plank", "Old Plank")>>

(***************************************************************************)
(* C25.  A take command moves the first item of world_items with the id    *)
(* to the end of the inventory, a drop command moves one item of the       *)
(* inventory with the id to the end of world_items, and either changes     *)
(* nothing when no item has the id; so world_items and the inventory hold  *)
(* between them the same items after the command as before.                *)
(***************************************************************************)
\* to is from without its element k
Without(from, k, to) ==
    /\ Len(to) = Len(from) - 1
    /\ \A i \in 1..Len(to) : to[i] = IF i < k THEN from[i] ELSE from[i + 1]

\* one element of from with the id went to the end of to: the first such
\* element when firstOne is TRUE
Moved(from, to, id, firstOne) ==
    LET hits == { i \in 1..Len(from) : from[i].id = id }
    IN  IF hits = {}
        THEN from' = from /\ to' = to
        ELSE \E k \in hits :
                /\ firstOne => \A j \in hits : k <= j
                /\ Without(from, k, from')
                /\ to' = Append(to, from[k])

C25_TakeDropConserve ==
    [][/\ CommandStep("take")
            => Moved(world_items, inventory, arg', TRUE)
       /\ CommandStep("drop")
            => Moved(inventory, world_items, arg', FALSE)
       /\ (CommandStep("take") \/ CommandStep("drop"))
            => SameItems(world_items' \o inventory',
                         world_items \o inventory)]_vars

C25_Witness ==
    /\ pc = "command"
    /\ command = "take"
    /\ arg = "plank"
    /\ inventory = <<Item("rope", "Rope"), Item("plank", "Wooden Plank")>>
    /\ world_items = <<Item("plank", "Old Plank")>>

\* The combat loop waits for nothing: it goes on until it is left.
SpecGameFair == SpecGame /\ WF_vars(Round) /\ WF_vars(FightEnd)

(***************************************************************************)
(* C26.  Every fight ends.  A round of the combat loop takes at least 1    *)
(* from the enemy's hp and, if the enemy is still alive, at least 1 from   *)
(* the player's hp; the loop is left only with the enemy's hp or the       *)
(* player's hp at 0 or below, and with the player's hp at 0 or below the   *)
(* command loop is left too.  No step changes the monsters list, and no    *)
(* step raises the player's hp.                                            *)
(***************************************************************************)
C26_FightTerminates ==
    /\ [][(pc = "fight" /\ pc' = "fight")
            => /\ enemy'.hp <= enemy.hp - 1
               /\ enemy'.hp > 0 => hp' <= hp - 1]_vars
    /\ [][(pc = "fight" /\ pc' /= "fight")
            => /\ enemy.hp <= 0 \/ hp <= 0
               /\ pc' = IF hp <= 0 THEN "exit" ELSE "command"]_vars
    /\ [][monsters' = monsters /\ hp' <= hp]_vars
    /\ [](pc = "command" => hp > 0)
    /\ (pc = "fight") ~> (pc /= "fight")

\* the slug, alive after the first round, has hit for the 1 its dice do not
\* give
C26_Witness ==
    /\ pc = "fight"
    /\ enemy.id = "slug"
    /\ enemy.hp = 1
    /\ hp = StartHp - 1
    /\ inventory = <<>>

=============================================================================
